---- MODULE Spec2Model ----
(***************************************************************************)
(* Color Crafter: the colour engine (lib/color-utils), the palette state  *)
(* of the application (App.tsx), the votes on a shared palette             *)
(* (TrendingPalettes) and the saved-palette hook (usePaletteStorage) as    *)
(* state machines.                                                         *)
(*                                                                         *)
(* A string is a sequence of one-character strings, so that trimming,      *)
(* slicing, case conversion and regular-expression matching are computed   *)
(* character by character as the code does.  Real numbers are fixed-point  *)
(* integers: saturation and lightness in units of 1/Unit, hues in units    *)
(* of 1/HueUnit degree.  Math.random() is a pseudo-random generator with a *)
(* hidden state; the model draws the hidden state nondeterministically.    *)
(***************************************************************************)
EXTENDS Integers, Sequences, FiniteSets, TLC

VARIABLES op, arg, arg2, mode, length, seed, seed2, out, ok, colors, colors2, hsl, draws,
          palette, pending, generatorBusy, editing, url, nextId, before, events,
          gradientStart, gradientEnd, gradientSteps,
          offsets,
          sharedPalette, calls, votesCast,
          user, loading, storageError, savedPalettes, subscription, authEvents

\* what a call of an engine function reads and writes
engineVars == <<op, arg, arg2, mode, length, seed, seed2, out, ok, colors, colors2, hsl, draws>>

\* the state of the application (App.tsx) and of the swatch being edited
appVars == <<palette, pending, generatorBusy, editing, url, nextId, before, events,
             gradientStart, gradientEnd, gradientSteps>>

\* the hue offsets a harmony mode hands to buildPaletteFromHues
hueVars == <<offsets>>

\* the state outside the engine call and the palette of the application
\* a shared palette's document in Firestore, the handleVote calls between
\* their getDoc and their updateDoc, and the number of calls started
voteVars == <<sharedPalette, calls, votesCast>>

\* usePaletteStorage: the signed-in user, the hook's state, its snapshot
\* listener, and the number of events so far
storageVars == <<user, loading, storageError, savedPalettes, subscription, authEvents>>

otherVars == <<hueVars, voteVars, storageVars>>

vars == <<engineVars, appVars, otherVars>>

(***************************************************************************)
(* Bounds of the model.                                                    *)
(***************************************************************************)
MaxDigits == 7
MaxLength == 12
MaxSteps == 5
MaxOffsets == 26
RandMod == 8

(***************************************************************************)
(* Characters and strings.                                                 *)
(***************************************************************************)
LowerDigits == <<"0", "1", "2", "3", "4", "5", "6", "7", "8", "9", "a", "b", "c", "d", "e", "f">>

UpperDigits == <<"0", "1", "2", "3", "4", "5", "6", "7", "8", "9", "A", "B", "C", "D", "E", "F">>

\* the character class [0-9A-Fa-f]
HexClass == {LowerDigits[k] : k \in 1..16} \cup {UpperDigits[k] : k \in 1..16}

\* the character class [0-9A-F]
UpperHexClass == {UpperDigits[k] : k \in 1..16}

\* String.prototype.toUpperCase, one character
UpperChar(ch) ==
  IF \E k \in 11..16 : LowerDigits[k] = ch
  THEN UpperDigits[CHOOSE k \in 11..16 : LowerDigits[k] = ch]
  ELSE IF ch = "z" THEN "Z" ELSE ch

toUpperCase(s) == [k \in 1..Len(s) |-> UpperChar(s[k])]

\* String.prototype.slice(0, n)
slice(s, n) == IF Len(s) <= n THEN s ELSE SubSeq(s, 1, n)

RECURSIVE TrimLeft(_)
TrimLeft(s) == IF Len(s) > 0 /\ Head(s) = " " THEN TrimLeft(Tail(s)) ELSE s

RECURSIVE TrimRight(_)
TrimRight(s) ==
  IF Len(s) > 0 /\ s[Len(s)] = " " THEN TrimRight(SubSeq(s, 1, Len(s) - 1)) ELSE s

\* String.prototype.trim
trim(s) == TrimRight(TrimLeft(s))

\* String.prototype.replace(ch, ''): removes the first occurrence only
replaceFirst(s, ch) ==
  IF \E k \in 1..Len(s) : s[k] = ch
  THEN LET p == CHOOSE k \in 1..Len(s) : s[k] = ch /\ \A j \in 1..(k - 1) : s[j] # ch
       IN  SubSeq(s, 1, p - 1) \o SubSeq(s, p + 1, Len(s))
  ELSE s

\* value.split('').map((ch) => ch.repeat(2)).join('')
repeatEach(s) == [k \in 1..(2 * Len(s)) |-> s[(k + 1) \div 2]]

(***************************************************************************)
(* normalizeHex and isValidHex.                                            *)
(***************************************************************************)
normalizeHex(hex) ==
  LET value == replaceFirst(trim(hex), "#")
  IN  IF Len(value) = 3
      THEN <<"#">> \o repeatEach(value)
      ELSE toUpperCase(<<"#">> \o slice(value, 6))

\* a plausible slip: the pattern is not anchored at its end
isValidHexUnanchored(hex) ==
  LET t == trim(hex)
      p == IF Len(t) > 0 /\ t[1] = "#" THEN 2 ELSE 1
  IN  /\ Len(t) - p + 1 >= 6
      /\ \A k \in p..(p + 5) : t[k] \in HexClass

\* /^#?[0-9A-Fa-f]{6}$/.test(hex.trim())
isValidHex(hex) ==
  LET t == trim(hex)
      p == IF Len(t) > 0 /\ t[1] = "#" THEN 2 ELSE 1
  IN  /\ Len(t) - p + 1 = 6
      /\ \A k \in p..Len(t) : t[k] \in HexClass


(***************************************************************************)
(* Numbers.  Saturation, lightness and channel fractions are integers in   *)
(* units of 1/Unit; hues are integers in units of 1/HueUnit degree.        *)
(***************************************************************************)
Unit == 100 * 100

HueUnit == 10 * 10

FullTurn == 360 * HueUnit

\* a / b rounded to the nearest integer, for a >= 0 and b > 0
RoundDiv(a, b) == (2 * a + b) \div (2 * b)

Abs(x) == IF x < 0 THEN -x ELSE x

Max2(a, b) == IF a >= b THEN a ELSE b

Min2(a, b) == IF a <= b THEN a ELSE b

\* JavaScript's %: the remainder takes the sign of the dividend
jsRem(a, b) == IF a >= 0 THEN a % b ELSE -((-a) % b)

\* a plausible slip: clamp that forgets the upper limit
clampNoUpper(value, min, max) == Max2(value, min)

\* const clamp = (value, min, max) => Math.min(Math.max(value, min), max)
clamp(value, min, max) == Min2(Max2(value, min), max)

\* a plausible slip: the remainder alone, which is negative for negative hues
wrapHueNoShift(hue) == jsRem(hue, FullTurn)

\* const wrapHue = (hue) => ((hue % 360) + 360) % 360
wrapHue(hue) == jsRem(jsRem(hue, FullTurn) + FullTurn, FullTurn)

(***************************************************************************)
(* culori: parse, converter('hsl'), the hsl -> rgb conversion, formatHex.  *)
(* A parsed colour is a record of its three 8-bit channels (culori keeps   *)
(* channel / 255); NoColor stands for culori's undefined.                  *)
(***************************************************************************)
NoColor == [none |-> TRUE]

NoHue == -1

HexValue(ch) ==
  IF \E k \in 1..16 : LowerDigits[k] = ch
  THEN (CHOOSE k \in 1..16 : LowerDigits[k] = ch) - 1
  ELSE (CHOOSE k \in 1..16 : UpperDigits[k] = ch) - 1

Byte(hi, lo) == 16 * HexValue(hi) + HexValue(lo)

\* culori's hex parser: /^#?([0-9a-f]{8}|[0-9a-f]{6}|[0-9a-f]{4}|[0-9a-f]{3})$/i
\* (no trimming; the alpha digits of the 4- and 8-digit forms are not kept here)
parse(str) ==
  LET d == IF Len(str) > 0 /\ str[1] = "#" THEN Tail(str) ELSE str
  IN  IF ~(Len(d) \in {3, 4, 6, 8} /\ \A k \in 1..Len(d) : d[k] \in HexClass)
      THEN NoColor
      ELSE IF Len(d) \in {3, 4}
           THEN [r |-> Byte(d[1], d[1]), g |-> Byte(d[2], d[2]), b |-> Byte(d[3], d[3])]
           ELSE [r |-> Byte(d[1], d[2]), g |-> Byte(d[3], d[4]), b |-> Byte(d[5], d[6])]

\* converter('hsl') on an rgb colour: h is NoHue (undefined) for greys
toHsl(rgb) ==
  IF rgb = NoColor THEN NoColor
  ELSE
    LET M == Max2(rgb.r, Max2(rgb.g, rgb.b))
        m == Min2(rgb.r, Min2(rgb.g, rgb.b))
        d == M - m
        sixth == IF M = rgb.r THEN (rgb.g - rgb.b) + (IF rgb.g < rgb.b THEN 6 * d ELSE 0)
                 ELSE IF M = rgb.g THEN (rgb.b - rgb.r) + 2 * d
                 ELSE (rgb.r - rgb.g) + 4 * d
    IN  [h |-> IF d = 0 THEN NoHue ELSE RoundDiv(60 * HueUnit * sixth, d) % FullTurn,
         s |-> IF d = 0 THEN 0 ELSE RoundDiv(Unit * d, 255 - Abs(M + m - 255)),
         l |-> RoundDiv(Unit * (M + m), 510)]

\* culori's hsl -> rgb, each channel as a fraction in units of 1/Unit
hslToRgb(h, s, l) ==
  LET hh == wrapHue(h)
      d  == RoundDiv(s * (IF 2 * l < Unit THEN l ELSE Unit - l), Unit)
      m1 == l + d
      m2 == m1 - RoundDiv(2 * d * Abs((hh % (120 * HueUnit)) - 60 * HueUnit), 60 * HueUnit)
      m0 == 2 * l - m1
      sector == hh \div (60 * HueUnit)
  IN  CASE sector = 0 -> [r |-> m1, g |-> m2, b |-> m0]
        [] sector = 1 -> [r |-> m2, g |-> m1, b |-> m0]
        [] sector = 2 -> [r |-> m0, g |-> m1, b |-> m2]
        [] sector = 3 -> [r |-> m0, g |-> m2, b |-> m1]
        [] sector = 4 -> [r |-> m2, g |-> m0, b |-> m1]
        [] sector = 5 -> [r |-> m1, g |-> m0, b |-> m2]
        [] OTHER -> [r |-> m0, g |-> m0, b |-> m0]

\* formatHex's fixup: Math.round(clamp(value, 0, 1) * 255)
fixup(value) == RoundDiv(255 * clamp(value, 0, Unit), Unit)

HexPair(n) == <<LowerDigits[(n \div 16) + 1], LowerDigits[(n % 16) + 1]>>

\* formatHex of 8-bit channels: '#' and six lower-case digits
formatHexRgb(rgb) == <<"#">> \o HexPair(rgb.r) \o HexPair(rgb.g) \o HexPair(rgb.b)

\* formatHex({ mode: 'hsl', h, s, l })
formatHexHsl(h, s, l) ==
  LET c == hslToRgb(h, s, l)
  IN  formatHexRgb([r |-> fixup(c.r), g |-> fixup(c.g), b |-> fixup(c.b)])

(***************************************************************************)
(* Math.random(): a generator with a hidden state in 0..RandMod-1; a draw  *)
(* advances the state and returns state / RandMod, a number in [0, 1).     *)
(***************************************************************************)
nextRandom(s) == (5 * s + 3) % RandMod

RECURSIVE randomAfter(_, _)
randomAfter(s, k) == IF k = 0 THEN s ELSE randomAfter(nextRandom(s), k - 1)

\* a plausible slip: the lightness span of 0.20 written as 0.30
randomPleasantHslWide(s) ==
  [h |-> RoundDiv(randomAfter(s, 1) * FullTurn, RandMod) % FullTurn,
   s |-> (45 * Unit) \div 100 + RoundDiv(randomAfter(s, 2) * ((35 * Unit) \div 100), RandMod),
   l |-> (40 * Unit) \div 100 + RoundDiv(randomAfter(s, 3) * ((30 * Unit) \div 100), RandMod)]

\* the hue, saturation and lightness randomPleasantHex draws from state s
randomPleasantHsl(s) ==
  [h |-> RoundDiv(randomAfter(s, 1) * FullTurn, RandMod) % FullTurn,
   s |-> (45 * Unit) \div 100 + RoundDiv(randomAfter(s, 2) * ((35 * Unit) \div 100), RandMod),
   l |-> (40 * Unit) \div 100 + RoundDiv(randomAfter(s, 3) * ((20 * Unit) \div 100), RandMod)]

\* randomPleasantHex(), called with the generator in state s (three draws)
randomPleasantHex(s) ==
  LET c == randomPleasantHsl(s) IN formatHexHsl(c.h, c.s, c.l)

\* Array.from({ length: n }, () => randomPleasantHex())
randomPalette(n, s) == [i \in 1..n |-> randomPleasantHex(randomAfter(s, 3 * (i - 1)))]

(***************************************************************************)
(* The harmony engine.  Every operator that may draw random numbers takes  *)
(* the generator state s it starts from and reports the draws it used.     *)
(***************************************************************************)
\* a plausible slip: the fallback is taken for every colour
ensureHslAlwaysRandom(hex, s) ==
  [hsl |-> toHsl(parse(randomPleasantHex(s))), used |-> 3]

ensureHsl(hex, s) ==
  LET c == toHsl(parse(hex))
  IN  IF c = NoColor \/ c.h = NoHue
      THEN [hsl |-> toHsl(parse(randomPleasantHex(s))), used |-> 3]
      ELSE [hsl |-> c, used |-> 0]

\* base?.h ?? 0
hueOr0(c) == IF c = NoColor \/ c.h = NoHue THEN 0 ELSE c.h

\* a plausible slip: the variation grows from index 0, not from the middle
distributeAtFromStart(base, n, offset, index, adjustLightness) ==
  LET baseSaturation == clamp(base.s, (40 * Unit) \div 100, (90 * Unit) \div 100)
      baseLightness == clamp(base.l, (25 * Unit) \div 100, (75 * Unit) \div 100)
      minLightness == Max2((25 * Unit) \div 100, baseLightness - (20 * Unit) \div 100)
      maxLightness == Min2((85 * Unit) \div 100, baseLightness + (20 * Unit) \div 100)
      spread == IF n > 1
                THEN RoundDiv((maxLightness - minLightness) * index, n - 1)
                ELSE (maxLightness - minLightness) \div 2
      variation == index * adjustLightness
  IN  [h |-> wrapHue(hueOr0(base) + offset * HueUnit),
       s |-> clamp(baseSaturation + ((2 * index - n) * ((5 * Unit) \div 100)) \div 2,
                   (35 * Unit) \div 100, (95 * Unit) \div 100),
       l |-> clamp(minLightness + spread + variation,
                   (25 * Unit) \div 100, (85 * Unit) \div 100)]

\* a plausible slip: the range is walked from lighter to darker, as the
\* code's comment has it
distributeAtDarkening(base, n, offset, index, adjustLightness) ==
  LET baseSaturation == clamp(base.s, (40 * Unit) \div 100, (90 * Unit) \div 100)
      baseLightness == clamp(base.l, (25 * Unit) \div 100, (75 * Unit) \div 100)
      minLightness == Max2((25 * Unit) \div 100, baseLightness - (20 * Unit) \div 100)
      maxLightness == Min2((85 * Unit) \div 100, baseLightness + (20 * Unit) \div 100)
      spread == IF n > 1
                THEN RoundDiv((maxLightness - minLightness) * (n - 1 - index), n - 1)
                ELSE (maxLightness - minLightness) \div 2
      variation == ((n - 2 * index) * adjustLightness) \div 2
  IN  [h |-> wrapHue(hueOr0(base) + offset * HueUnit),
       s |-> clamp(baseSaturation + ((2 * index - n) * ((5 * Unit) \div 100)) \div 2,
                   (35 * Unit) \div 100, (95 * Unit) \div 100),
       l |-> clamp(minLightness + spread + variation,
                   (25 * Unit) \div 100, (85 * Unit) \div 100)]

\* the body of buildPaletteFromHues's map callback: the (h, s, l) handed to
\* formatHex for one index of n; offset in whole degrees, adjustLightness in 1/Unit
distributeAt(base, n, offset, index, adjustLightness) ==
  LET baseSaturation == clamp(base.s, (40 * Unit) \div 100, (90 * Unit) \div 100)
      baseLightness == clamp(base.l, (25 * Unit) \div 100, (75 * Unit) \div 100)
      minLightness == Max2((25 * Unit) \div 100, baseLightness - (20 * Unit) \div 100)
      maxLightness == Min2((85 * Unit) \div 100, baseLightness + (20 * Unit) \div 100)
      spread == IF n > 1
                THEN RoundDiv((maxLightness - minLightness) * index, n - 1)
                ELSE (maxLightness - minLightness) \div 2
      variation == ((2 * index - n) * adjustLightness) \div 2
  IN  [h |-> wrapHue(hueOr0(base) + offset * HueUnit),
       s |-> clamp(baseSaturation + ((2 * index - n) * ((5 * Unit) \div 100)) \div 2,
                   (35 * Unit) \div 100, (95 * Unit) \div 100),
       l |-> IF adjustLightness # 0
             THEN clamp(minLightness + spread + variation,
                        (25 * Unit) \div 100, (85 * Unit) \div 100)
             ELSE minLightness + spread]

\* hues.map((offset, index) => ...) before formatHex
distribute(base, hues, adjustLightness) ==
  [k \in 1..Len(hues) |-> distributeAt(base, Len(hues), hues[k], k - 1, adjustLightness)]

formatHsl(c) == formatHexHsl(c.h, c.s, c.l)

\* buildPaletteFromHues(baseHex, hues, adjustLightness)
buildPaletteFromHues(baseHex, hues, adjustLightness, s) ==
  LET e == ensureHsl(baseHex, s)
  IN  [colors |-> [k \in 1..Len(hues) |->
                     formatHsl(distributeAt(e.hsl, Len(hues), hues[k], k - 1, adjustLightness))],
       hsl |-> distribute(e.hsl, hues, adjustLightness),
       draws |-> e.used]

\* a plausible slip: past the end of the table its last entry is used again
tableOrLast(table, index) == IF index + 1 <= Len(table) THEN table[index + 1] ELSE table[Len(table)]

\* variations[variationIndex] || 0
tableOr0(table, index) == IF index + 1 <= Len(table) THEN table[index + 1] ELSE 0

\* a plausible slip: the complement on the even indices
complementaryHuesSwapped(n) == [k \in 1..n |-> IF (k - 1) % 2 = 0 THEN 180 ELSE 0]

complementaryHues(n) == [k \in 1..n |-> IF (k - 1) % 2 = 0 THEN 0 ELSE 180]

analogousHues(n) == [k \in 1..n |-> -40 + (k - 1) * 20]

cycleHues(baseHues, variations, n) ==
  [k \in 1..n |->
     baseHues[((k - 1) % Len(baseHues)) + 1] + tableOr0(variations, (k - 1) \div Len(baseHues))]

triadicHues(n) == cycleHues(<<0, 120, 240>>, <<0, 20, -20, 40, -40>>, n)

tetradicHues(n) == cycleHues(<<0, 90, 180, 270>>, <<0, 15, -15, 30, -30, 45>>, n)

splitHues(n) == cycleHues(<<0, 150, 210>>, <<0, 20, -20, 40, -40, 10, -10>>, n)

\* the adjustLightness argument of each hue-offset mode, in 1/Unit
adjustOf(m) ==
  CASE m = "complementary" -> (6 * Unit) \div 100
    [] m = "analogous" -> (4 * Unit) \div 100
    [] m = "triadic" -> (5 * Unit) \div 100
    [] m = "tetradic" -> (3 * Unit) \div 100
    [] m = "split" -> (5 * Unit) \div 100

huesOf(m, n) ==
  CASE m = "complementary" -> complementaryHues(n)
    [] m = "analogous" -> analogousHues(n)
    [] m = "triadic" -> triadicHues(n)
    [] m = "tetradic" -> tetradicHues(n)
    [] m = "split" -> splitHues(n)

HueModes == {"complementary", "analogous", "triadic", "tetradic", "split"}

\* a plausible slip: one colour too few
generatePaletteByModeShort(baseHex, m, n, s) ==
  [colors |-> randomPalette(n - 1, s), hsl |-> <<>>, draws |-> 3 * (n - 1)]

\* a plausible slip: the default branch falls into the gradient case
generatePaletteByModeDefaultBase(baseHex, m, n, s) ==
  IF m = "random"
  THEN [colors |-> randomPalette(n, s), hsl |-> <<>>, draws |-> 3 * n]
  ELSE [colors |-> [k \in 1..n |-> normalizeHex(baseHex)], hsl |-> <<>>, draws |-> 0]

\* generatePaletteByMode(baseHex, mode, length) with the generator in state s
generatePaletteByMode(baseHex, m, n, s) ==
  LET base == normalizeHex(baseHex)
  IN  IF m \in HueModes
      THEN LET first == IF m = "complementary" THEN ensureHsl(base, s).used ELSE 0
               built == buildPaletteFromHues(base, huesOf(m, n), adjustOf(m),
                                             randomAfter(s, first))
           IN  [colors |-> built.colors, hsl |-> built.hsl, draws |-> first + built.draws]
      ELSE IF m = "gradient"
      THEN [colors |-> [k \in 1..n |-> base], hsl |-> <<>>, draws |-> 0]
      ELSE [colors |-> randomPalette(n, s), hsl |-> <<>>, draws |-> 3 * n]

(***************************************************************************)
(* getReadableTextColor.  culori's rgb channels are byte / 255, so         *)
(* 0.2126 r + 0.7152 g + 0.0722 b > 0.55 is compared on the bytes, both    *)
(* sides scaled by 255 * 10000.                                            *)
(***************************************************************************)
DarkText == <<"#", "0", "f", "1", "7", "2", "a">>

LightText == <<"#", "f", "8", "f", "a", "f", "c">>

luminance(rgb) == 2126 * rgb.r + 7152 * rgb.g + 722 * rgb.b

\* a plausible slip: the threshold at one half
getReadableTextColorHalf(hex) ==
  LET rgb == parse(hex)
  IN  IF rgb = NoColor THEN DarkText
      ELSE IF luminance(rgb) > 50 * 255 * 100 THEN DarkText ELSE LightText

getReadableTextColor(hex) ==
  LET rgb == parse(hex)
  IN  IF rgb = NoColor THEN DarkText
      ELSE IF luminance(rgb) > 55 * 255 * 100 THEN DarkText ELSE LightText

(***************************************************************************)
(* generateGradientPalette.  culori's interpolate([a, b], 'oklch') returns *)
(* a function of t that is the colour a at t = 0 and the colour b at       *)
(* t = 1: the conversion to OKLCH and back is computed in double precision *)
(* and its error is far below the 1/510 rounding step of formatHex.  The   *)
(* OKLCH coordinates themselves are not modelled: between the endpoints    *)
(* the sample is blended per channel, which stands for the perceptual      *)
(* blend and is only used as some in-gamut colour that depends on t.       *)
(***************************************************************************)
blend(a, b, num, den) ==
  [r |-> RoundDiv((den - num) * a.r + num * b.r, den),
   g |-> RoundDiv((den - num) * a.g + num * b.g, den),
   b |-> RoundDiv((den - num) * a.b + num * b.b, den)]

\* a plausible slip: the fallback is taken only when both endpoints fail
gradientFallbackBoth(startHex, endHex, steps, s) ==
  LET start == IF parse(startHex) = NoColor THEN parse(endHex) ELSE parse(startHex)
      end == IF parse(endHex) = NoColor THEN parse(startHex) ELSE parse(endHex)
  IN  IF start = NoColor
      THEN [colors |-> randomPalette(steps, s), draws |-> 3 * steps]
      ELSE [colors |-> [k \in 1..steps |-> formatHexRgb(blend(start, end, k - 1, Max2(steps - 1, 1)))],
            draws |-> 0]

\* a plausible slip: t = i / steps, which never reaches the end colour
gradientShortOfEnd(startHex, endHex, steps, s) ==
  IF parse(startHex) = NoColor \/ parse(endHex) = NoColor
  THEN [colors |-> randomPalette(steps, s), draws |-> 3 * steps]
  ELSE [colors |-> [k \in 1..steps |->
                      formatHexRgb(blend(parse(startHex), parse(endHex), k - 1, steps))],
        draws |-> 0]

\* generateGradientPalette(startHex, endHex, steps) with the generator in state s
generateGradientPalette(startHex, endHex, steps, s) ==
  LET start == parse(startHex)
      end == parse(endHex)
      max == Max2(steps - 1, 1)
  IN  IF start = NoColor \/ end = NoColor
      THEN [colors |-> randomPalette(steps, s), draws |-> 3 * steps]
      ELSE [colors |-> [k \in 1..steps |-> formatHexRgb(blend(start, end, k - 1, max))],
            draws |-> 0]

(***************************************************************************)
(* The application state while only engine functions are called.           *)
(***************************************************************************)
NoEdit == [id |-> 0, text |-> <<>>, focused |-> FALSE]

NoRequest == [palette |-> <<>>, length |-> 0]

NoBefore == [palette |-> <<>>, editing |-> NoEdit, request |-> NoRequest, target |-> 0]

NoAppState ==
  /\ palette = <<>>
  /\ pending = <<>>
  /\ generatorBusy = FALSE
  /\ editing = NoEdit
  /\ url = <<>>
  /\ nextId = 1
  /\ before = NoBefore
  /\ events = 0
  /\ gradientStart = <<>>
  /\ gradientEnd = <<>>
  /\ gradientSteps = 0

NoDocument == [upvotes |-> 0, downvotes |-> 0, upvotedBy |-> {}, downvotedBy |-> {}]

NoCall == [uid |-> "", voteType |-> "", data |-> NoDocument]

NoUser == ""

NoSubscription == [uid |-> NoUser, status |-> "none"]

NoVotes ==
  /\ sharedPalette = NoDocument
  /\ calls = <<>>
  /\ votesCast = 0

NoStorage ==
  /\ user = NoUser
  /\ loading = FALSE
  /\ storageError = ""
  /\ savedPalettes = <<>>
  /\ subscription = NoSubscription
  /\ authEvents = 0

NoHues == offsets = <<>>

NoOther ==
  /\ NoHues
  /\ NoVotes
  /\ NoStorage

NoApp ==
  /\ NoOther
  /\ NoAppState

(***************************************************************************)
(* Inputs of the hex helpers: optional surrounding blanks, zero to two '#' *)
(* and up to MaxDigits characters, lower case, upper case, decimal and one *)
(* that is no hexadecimal digit.                                           *)
(***************************************************************************)
BodyChars == {"a", "C", "9", "z"}

Bodies == UNION {[1..n -> BodyChars] : n \in 0..MaxDigits}

Prefixes == {<<>>, <<"#">>, <<" ", "#">>, <<"#", "#">>}

Suffixes == {<<>>, <<" ">>}

HexInputs == {p \o b \o s : p \in Prefixes, b \in Bodies, s \in Suffixes}

NoColors == <<>>

InitHex ==
  /\ op = "input"
  /\ arg \in HexInputs
  /\ arg2 = <<>>
  /\ mode = "none"
  /\ length = 0
  /\ seed = 0
  /\ seed2 = 0
  /\ out = <<>>
  /\ ok = FALSE
  /\ colors = NoColors
  /\ colors2 = NoColors
  /\ hsl = <<>>
  /\ draws = 0
  /\ NoApp

CallNormalizeHex ==
  /\ op = "input"
  /\ op' = "normalizeHex"
  /\ out' = normalizeHex(arg)
  /\ UNCHANGED <<arg, arg2, mode, length, seed, seed2, ok, colors, colors2, hsl, draws>>
  /\ UNCHANGED <<appVars, otherVars>>

CallIsValidHex ==
  /\ op = "input"
  /\ op' = "isValidHex"
  /\ ok' = isValidHex(arg)
  /\ UNCHANGED <<arg, arg2, mode, length, seed, seed2, out, colors, colors2, hsl, draws>>
  /\ UNCHANGED <<appVars, otherVars>>

NextHex == CallNormalizeHex \/ CallIsValidHex

SpecHex == InitHex /\ [][NextHex]_vars

(***************************************************************************)
(* Inputs of generatePaletteByMode: saturated, dark, light and grey bases, *)
(* a shorthand, a 4-digit form, a padded one and strings that do not parse.*)
(***************************************************************************)
BaseInputs ==
  {<<"#", "F", "F", "0", "0", "0", "0">>,
   <<"#", "2", "5", "6", "3", "e", "b">>,
   <<"#", "0", "f", "1", "7", "2", "a">>,
   <<"#", "f", "8", "f", "a", "f", "c">>,
   <<"#", "8", "0", "8", "0", "8", "0">>,
   <<"#", "0", "0", "0", "0", "0", "0">>,
   <<"#", "f", "f", "f", "f", "f", "f">>,
   <<"a", "b", "c">>,
   <<"#", "A", "B", "C", "D">>,
   <<"z", "z", "z", "z", "z", "z">>,
   <<"#", "1", "2">>,
   <<" ", "#", "1", "4", "b", "8", "a", "6", " ">>}

Modes == {"random", "complementary", "analogous", "triadic", "tetradic", "split", "gradient"}

\* a value outside the PaletteMode type, for the default branch of the switch
ModeInputs == Modes \cup {"monochrome"}

InitPalette ==
  /\ op = "input"
  /\ arg \in BaseInputs
  /\ arg2 = <<>>
  /\ mode \in ModeInputs
  /\ length \in 1..MaxLength
  /\ seed \in 0..(RandMod - 1)
  /\ seed2 = 0
  /\ out = <<>>
  /\ ok = FALSE
  /\ colors = NoColors
  /\ colors2 = NoColors
  /\ hsl = <<>>
  /\ draws = 0
  /\ NoApp

\* one call of generatePaletteByMode(arg, mode, length)
CallGeneratePaletteByMode ==
  /\ op = "input"
  /\ LET g == generatePaletteByMode(arg, mode, length, seed)
     IN  /\ colors' = g.colors
         /\ hsl' = g.hsl
         /\ draws' = g.draws
  /\ op' = "generatePaletteByMode"
  /\ UNCHANGED <<arg, arg2, mode, length, seed, seed2, out, ok, colors2>>
  /\ UNCHANGED <<appVars, otherVars>>

\* a second call with the same arguments, the generator in any state
CallGeneratePaletteByModeAgain ==
  /\ op = "generatePaletteByMode"
  /\ \E s \in 0..(RandMod - 1) :
       /\ seed2' = s
       /\ colors2' = generatePaletteByMode(arg, mode, length, s).colors
  /\ op' = "generatePaletteByModeAgain"
  /\ UNCHANGED <<arg, arg2, mode, length, seed, out, ok, colors, hsl, draws>>
  /\ UNCHANGED <<appVars, otherVars>>

NextPalette == CallGeneratePaletteByMode \/ CallGeneratePaletteByModeAgain

SpecPalette == InitPalette /\ [][NextPalette]_vars

(***************************************************************************)
(* The hue offsets of the harmony modes, for palettes long enough to run   *)
(* past the end of each variation table (15, 24 and 21 indices).           *)
(***************************************************************************)
OffsetBases ==
  {<<"#", "2", "5", "6", "3", "e", "b">>,
   <<"#", "F", "F", "0", "0", "0", "0">>}

InitOffsets ==
  /\ op = "input"
  /\ arg \in OffsetBases
  /\ arg2 = <<>>
  /\ mode \in HueModes
  /\ length \in 1..MaxOffsets
  /\ seed = 0
  /\ seed2 = 0
  /\ out = <<>>
  /\ ok = FALSE
  /\ colors = NoColors
  /\ colors2 = NoColors
  /\ hsl = <<>>
  /\ draws = 0
  /\ NoApp

\* one call of generatePaletteByMode(arg, mode, length) in a hue-offset mode,
\* with the hues array it builds kept beside the result
CallHueMode ==
  /\ op = "input"
  /\ offsets' = huesOf(mode, length)
  /\ LET g == generatePaletteByMode(arg, mode, length, seed)
     IN  /\ colors' = g.colors
         /\ hsl' = g.hsl
         /\ draws' = g.draws
  /\ op' = "huesOf"
  /\ UNCHANGED <<arg, arg2, mode, length, seed, seed2, out, ok, colors2>>
  /\ UNCHANGED <<appVars, voteVars, storageVars>>

NextOffsets == CallHueMode

SpecOffsets == InitOffsets /\ [][NextOffsets]_vars

(***************************************************************************)
(* Inputs of generateGradientPalette.                                      *)
(***************************************************************************)
GradientInputs ==
  {<<"#", "2", "5", "6", "3", "E", "B">>,
   <<"#", "F", "9", "7", "3", "1", "6">>,
   <<"#", "f", "f", "0", "0", "0", "0">>,
   <<"#", "8", "0", "8", "0", "8", "0">>,
   <<"a", "b", "c">>,
   <<"#", "A", "B", "C", "D">>,
   <<"z", "z", "z", "z", "z", "z">>,
   <<" ", "#", "1", "4", "b", "8", "a", "6">>,
   <<"0", "f", "7", "6", "6", "e">>}

InitGradient ==
  /\ op = "input"
  /\ arg \in GradientInputs
  /\ arg2 \in GradientInputs
  /\ mode = "gradient"
  /\ length \in 1..MaxSteps
  /\ seed \in 0..(RandMod - 1)
  /\ seed2 = 0
  /\ out = <<>>
  /\ ok = FALSE
  /\ colors = NoColors
  /\ colors2 = NoColors
  /\ hsl = <<>>
  /\ draws = 0
  /\ NoApp

\* one call of generateGradientPalette(arg, arg2, length)
CallGenerateGradientPalette ==
  /\ op = "input"
  /\ LET g == generateGradientPalette(arg, arg2, length, seed)
     IN  /\ colors' = g.colors
         /\ draws' = g.draws
  /\ op' = "generateGradientPalette"
  /\ UNCHANGED <<arg, arg2, mode, length, seed, seed2, out, ok, colors2, hsl>>
  /\ UNCHANGED <<appVars, otherVars>>

NextGradient == CallGenerateGradientPalette

SpecGradient == InitGradient /\ [][NextGradient]_vars

(***************************************************************************)
(* Inputs of getReadableTextColor: every colour with channels taken from   *)
(* five levels, 8c and 8d being the greys on either side of the threshold, *)
(* and the strings of the other operations, some of which do not parse.    *)
(***************************************************************************)
Levels == {<<"0", "0">>, <<"5", "5">>, <<"8", "c">>, <<"8", "d">>, <<"F", "F">>}

TextInputs ==
  {<<"#">> \o r \o g \o b : r \in Levels, g \in Levels, b \in Levels}
    \cup BaseInputs \cup GradientInputs

InitText ==
  /\ op = "input"
  /\ arg \in TextInputs
  /\ arg2 = <<>>
  /\ mode = "random"
  /\ length = 0
  /\ seed = 0
  /\ seed2 = 0
  /\ out = <<>>
  /\ ok = FALSE
  /\ colors = NoColors
  /\ colors2 = NoColors
  /\ hsl = <<>>
  /\ draws = 0
  /\ NoApp

\* one call of getReadableTextColor(arg)
CallGetReadableTextColor ==
  /\ op = "input"
  /\ out' = getReadableTextColor(arg)
  /\ op' = "getReadableTextColor"
  /\ UNCHANGED <<arg, arg2, mode, length, seed, seed2, ok, colors, colors2, hsl, draws>>
  /\ UNCHANGED <<appVars, otherVars>>

NextText == CallGetReadableTextColor

SpecText == InitText /\ [][NextText]_vars

(***************************************************************************)
(* The application, later revision (at most six swatches, always random).  *)
(* A palette is a sequence of swatches [id, hex, locked].  createColorId() *)
(* returns eight random characters; the model hands out the next unused    *)
(* number, and since the id draws come from the same Math.random as the    *)
(* colours, the generator state at each randomPleasantHex() is arbitrary.  *)
(***************************************************************************)
MaxSwatches == 6

MinSwatches == 2

DefaultLength == 5

DEFAULT_HEXES ==
  <<<<"#", "0", "f", "1", "7", "2", "a">>, <<"#", "0", "f", "7", "6", "6", "e">>, <<"#", "1", "4", "b", "8", "a", "6">>, <<"#", "3", "8", "b", "d", "f", "8">>, <<"#", "f", "4", "7", "2", "b", "6">>>>

\* hexes.slice(0, 6).map((hex) => ({ id: createColorId(), hex: normalizeHex(hex), locked: false }))
createPaletteFromHexes(hexes, firstId) ==
  LET limitedHexes == slice(hexes, MaxSwatches)
  IN  [k \in 1..Len(limitedHexes) |->
         [id |-> firstId + k - 1, hex |-> normalizeHex(limitedHexes[k]), locked |-> FALSE]]

\* String.prototype.split(sep)
RECURSIVE split(_, _)
split(str, sep) ==
  IF \E k \in 1..Len(str) : str[k] = sep
  THEN LET p == CHOOSE k \in 1..Len(str) : str[k] = sep /\ \A j \in 1..(k - 1) : str[j] # sep
       IN  <<SubSeq(str, 1, p - 1)>> \o split(SubSeq(str, p + 1, Len(str)), sep)
  ELSE <<str>>

\* Array.prototype.join(sep)
RECURSIVE join(_, _)
join(parts, sep) ==
  IF Len(parts) = 0 THEN <<>>
  ELSE IF Len(parts) = 1 THEN parts[1]
  ELSE parts[1] \o <<sep>> \o join(Tail(parts), sep)

\* colorsParam.split('-').map(trim).filter(Boolean).map((value) => `#${value.replace('#', '')}`)
parseColors(colorsParam) ==
  LET parts == split(colorsParam, "-")
      trimmed == [k \in 1..Len(parts) |-> trim(parts[k])]
      kept == SelectSeq(trimmed, LAMBDA value : value # <<>>)
  IN  [k \in 1..Len(kept) |-> <<"#">> \o replaceFirst(kept[k], "#")]

\* parsePaletteFromUrl(): the palette the `colors` parameter gives; an absent
\* parameter is the empty string, which `if (colorsParam)` treats alike
parsePaletteFromUrl(colorsParam, firstId) ==
  IF colorsParam # <<>> /\ Len(parseColors(colorsParam)) > 0
  THEN createPaletteFromHexes(parseColors(colorsParam), firstId)
  ELSE createPaletteFromHexes(DEFAULT_HEXES, firstId)

\* the URL sync effect: palette.map((color) => color.hex.replace('#', '')).join('-')
colorsParamOf(pal) == join([k \in 1..Len(pal) |-> replaceFirst(pal[k].hex, "#")], "-")

HasId(pal, id) == \E k \in 1..Len(pal) : pal[k].id = id

hexOf(pal, id) == pal[CHOOSE k \in 1..Len(pal) : pal[k].id = id].hex

\* toggleLock(id)
toggleLock(current, id) ==
  [k \in 1..Len(current) |->
     IF current[k].id = id THEN [current[k] EXCEPT !.locked = ~current[k].locked]
     ELSE current[k]]

\* a plausible slip: every swatch takes the new hex
updateHexAll(current, id, hex) ==
  [k \in 1..Len(current) |-> [current[k] EXCEPT !.hex = hex]]

\* updateHex(id, hex)
updateHex(current, id, hex) ==
  [k \in 1..Len(current) |->
     IF current[k].id = id THEN [current[k] EXCEPT !.hex = hex] ELSE current[k]]

\* insertAfter(index), index counted from 0; the new swatch gets id newId and
\* the colour randomPleasantHex() returns with the generator in state s
insertAfter(current, index, newId, s) ==
  IF Len(current) >= MaxSwatches THEN current
  ELSE SubSeq(current, 1, index + 1)
         \o <<[id |-> newId, hex |-> randomPleasantHex(s), locked |-> FALSE]>>
         \o SubSeq(current, index + 2, Len(current))

\* deleteAt(index), index counted from 0
deleteAt(current, index, firstId) ==
  IF Len(current) <= MinSwatches THEN current
  ELSE LET next == SubSeq(current, 1, index) \o SubSeq(current, index + 2, Len(current))
       IN  IF Len(next) = 0 THEN createPaletteFromHexes(DEFAULT_HEXES, firstId) ELSE next

\* Math.min(palette.length || 5, 6)
targetLengthOf(pal) == Min2(IF Len(pal) = 0 THEN DefaultLength ELSE Len(pal), MaxSwatches)

\* generatePalette() up to requestAnimationFrame: what the callback closes over
requestOf(pal) == [palette |-> pal, length |-> targetLengthOf(pal)]

\* the animation-frame callback of generatePalette, for the palette and the
\* length the callback closed over when the regeneration was requested
regenerate(request, s, firstId) ==
  LET captured == request.palette
  IN  slice([k \in 1..request.length |->
               IF k <= Len(captured) /\ captured[k].locked THEN captured[k]
               ELSE [id |-> IF k <= Len(captured) THEN captured[k].id
                            ELSE firstId + (k - Len(captured)) - 1,
                     hex |-> randomPleasantHex(randomAfter(s, 3 * (k - 1))),
                     locked |-> IF k <= Len(captured) THEN captured[k].locked ELSE FALSE]],
            MaxSwatches)

\* the number of swatches of a request that have no existing swatch to keep
freshIds(request) == request.length - Min2(Len(request.palette), request.length)

\* CraftVisualizer.handleGenerateNew
handleGenerateNew(pal, s, firstId) ==
  [k \in 1..targetLengthOf(pal) |->
     [id |-> firstId + k - 1,
      hex |-> randomPleasantHex(randomAfter(s, 3 * (k - 1))),
      locked |-> FALSE]]

\* the palette viewer's click on the colour at `index` (counted from 0)
cycleColor(pal, index) ==
  LET shown == slice(pal, MaxSwatches)
      nextIndex == (index + 1) % Len(shown)
  IN  [k \in 1..Len(shown) |->
         [id |-> pal[k].id,
          hex |-> IF k = index + 1 THEN shown[nextIndex + 1].hex ELSE shown[k].hex,
          locked |-> FALSE]]

\* a plausible slip: the typed text is stored without asking isValidHex
handleHexBlurUnchecked(pal, ed) ==
  [palette |-> updateHex(pal, ed.id, normalizeHex(ed.text)), text |-> ed.text]

\* PaletteSwatch.handleHexBlur for the swatch ed.id whose input holds ed.text:
\* the palette onHexChange leaves and the text setEditingHex leaves
handleHexBlur(pal, ed) ==
  IF isValidHex(ed.text)
  THEN [palette |-> updateHex(pal, ed.id, normalizeHex(ed.text)), text |-> ed.text]
  ELSE [palette |-> pal, text |-> hexOf(pal, ed.id)]

\* what the next render does to the input of the swatch being edited: the
\* swatch may be gone, and useEffect(..., [color.hex]) resets the text when
\* the swatch's hex has changed
afterRender(ed, old, new) ==
  IF ed = NoEdit \/ ~HasId(new, ed.id) THEN NoEdit
  ELSE IF HasId(old, ed.id) /\ hexOf(new, ed.id) # hexOf(old, ed.id)
       THEN [ed EXCEPT !.text = hexOf(new, ed.id)]
       ELSE ed

(***************************************************************************)
(* Inputs of the application: `colors` parameters of the page URL, texts   *)
(* typed into a swatch, a picked colour, colour lists of saved and         *)
(* trending palettes, and states of the random generator.                  *)
(***************************************************************************)
MaxEvents == 3

\* the first and the last state of the random generator
AppSeeds == {0, RandMod - 1}

UrlInputs ==
  {<<>>,
   <<"2", "5", "6", "3", "e", "b", "-", "f", "9", "7", "3", "1", "6">>,
   <<"a", "b", "c">>,
   <<" ", "0", "f", "7", "6", "6", "e", " ", "-", "-", "#", "1", "4", "B", "8", "A", "6", "-", "1", "2">>,
   <<"1", "1", "1", "1", "1", "1", "-", "2", "2", "2", "2", "2", "2", "-", "3", "3", "3", "3", "3", "3", "-", "4", "4", "4", "4", "4", "4", "-", "5", "5", "5", "5", "5", "5", "-", "6", "6", "6", "6", "6", "6", "-", "7", "7", "7", "7", "7", "7">>}

TypedInputs == {<<"2", "5", "6", "3", "e", "b">>, <<"#", "1", "2">>}

PickedInputs == {<<"#", "f", "9", "7", "3", "1", "6">>}

LoadInputs ==
  {<<>>,
   <<<<"#", "1", "4", "b", "8", "a", "6">>>>,
   <<<<"#", "2", "5", "6", "3", "E", "B">>, <<"#", "f", "9", "7", "3", "1", "6">>, <<"#", "0", "F", "7", "6", "6", "E">>>>}

\* the swatches the pointer goes to: the first and the last of the palette
Touched(pal) == {i \in 1..Len(pal) : i = 1 \/ i = Len(pal)}

InitApp ==
  /\ op = "parsePaletteFromUrl"
  /\ arg \in UrlInputs
  /\ arg2 = <<>>
  /\ mode = "random"
  /\ length = 0
  /\ seed = 0
  /\ seed2 = 0
  /\ out = <<>>
  /\ ok = FALSE
  /\ colors = NoColors
  /\ colors2 = NoColors
  /\ hsl = <<>>
  /\ draws = 0
  /\ palette = parsePaletteFromUrl(arg, 1)
  /\ pending = <<>>
  /\ generatorBusy = FALSE
  /\ editing = NoEdit
  /\ url = colorsParamOf(palette)
  /\ nextId = Len(palette) + 1
  /\ before = NoBefore
  /\ events = 0
  /\ gradientStart = <<>>
  /\ gradientEnd = <<>>
  /\ gradientSteps = 0
  /\ NoOther

\* what every handler of the later revision leaves behind: the new palette,
\* the URL the sync effect writes from it, and the swatch input re-rendered
Render(name, text, s, nextPalette, ed, target, ids) ==
  /\ events < MaxEvents
  /\ op' = name
  /\ arg' = text
  /\ seed' = s
  /\ palette' = nextPalette
  /\ url' = colorsParamOf(palette')
  /\ editing' = afterRender(ed, palette, palette')
  /\ nextId' = nextId + ids
  /\ before' = [palette |-> palette, editing |-> editing,
                request |-> IF name = "generatePalette" THEN Head(pending) ELSE NoRequest,
                target |-> target]
  /\ events' = events + 1
  /\ UNCHANGED <<arg2, mode, length, seed2, out, ok, colors, colors2, hsl, draws,
                 gradientStart, gradientEnd, gradientSteps>>
  /\ UNCHANGED otherVars

\* the lock button of swatch i
ToggleLock ==
  \E i \in Touched(palette) :
    /\ Render("toggleLock", arg, seed, toggleLock(palette, palette[i].id), editing, i, 0)
    /\ UNCHANGED <<pending, generatorBusy>>

\* typing into the hex input of swatch i: setEditingHex(event.target.value);
\* the input is reached only after any other input has lost the focus
TypeHex ==
  \E i \in Touched(palette), text \in TypedInputs :
    /\ ~editing.focused \/ editing.id = palette[i].id
    /\ Render("setEditingHex", text, seed, palette,
              [id |-> palette[i].id, text |-> text, focused |-> TRUE], i, 0)
    /\ UNCHANGED <<pending, generatorBusy>>

\* the input of the swatch being edited loses the focus, or Enter is pressed
BlurHex ==
  \E key \in {"blur", "Enter"} :
    /\ editing.focused
    /\ LET r == handleHexBlur(palette, editing)
       IN  Render("handleHexBlur", arg, seed, r.palette,
                  [id |-> editing.id, text |-> r.text, focused |-> key = "Enter"], 0, 0)
    /\ UNCHANGED <<pending, generatorBusy>>

\* the colour picker of swatch i: onHexChange(color.id, normalizeHex(value))
PickColor ==
  \E i \in Touched(palette), value \in PickedInputs :
    /\ ~editing.focused
    /\ Render("updateHex", value, seed,
              updateHex(palette, palette[i].id, normalizeHex(value)), editing, i, 0)
    /\ UNCHANGED <<pending, generatorBusy>>

\* the insert button of swatch i; it is not rendered at six swatches
InsertAfter ==
  \E i \in Touched(palette), s \in AppSeeds :
    /\ Len(palette) < MaxSwatches
    /\ Render("insertAfter", arg, s, insertAfter(palette, i - 1, nextId, s), editing, i, 1)
    /\ UNCHANGED <<pending, generatorBusy>>

\* the delete button of swatch i
DeleteAt ==
  \E i \in Touched(palette) :
    /\ Render("deleteAt", arg, seed, deleteAt(palette, i - 1, nextId), editing, i, 0)
    /\ UNCHANGED <<pending, generatorBusy>>

\* the Regenerate button, disabled while generatorBusy: generatePalette()
\* up to the point where it hands its callback to requestAnimationFrame
RequestGenerate ==
  /\ ~generatorBusy
  /\ Render("requestGenerate", arg, seed, palette, editing, 0, 0)
  /\ pending' = Append(pending, requestOf(palette))
  /\ generatorBusy' = TRUE

\* the animation frame: the callback of the oldest request runs
CommitGenerate ==
  \E s \in AppSeeds :
    /\ pending # <<>>
    /\ Render("generatePalette", arg, s, regenerate(Head(pending), s, nextId), editing, 0,
              freshIds(Head(pending)))
    /\ pending' = Tail(pending)
    /\ generatorBusy' = FALSE

\* a saved or trending palette is loaded: setPalette(createPaletteFromHexes(colors))
LoadPalette ==
  \E list \in LoadInputs :
    LET loaded == createPaletteFromHexes(list, nextId)
    IN  /\ Render("handleLoadPalette", arg, seed, loaded, NoEdit, 0, Len(loaded))
        /\ UNCHANGED <<pending, generatorBusy>>

\* the visualizer page's "Generate New Palette" button
VisualizerGenerateNew ==
  \E s \in AppSeeds :
    LET newPalette == handleGenerateNew(palette, s, nextId)
    IN  /\ Render("handleGenerateNew", arg, s, newPalette, NoEdit, 0, Len(newPalette))
        /\ UNCHANGED <<pending, generatorBusy>>

\* a click on colour i of the visualizer page's palette viewer
VisualizerCycle ==
  \E i \in Touched(slice(palette, MaxSwatches)) :
    /\ Render("cycleColor", arg, seed, cycleColor(palette, i - 1), NoEdit, i, 0)
    /\ UNCHANGED <<pending, generatorBusy>>

NextApp ==
  \/ ToggleLock
  \/ TypeHex
  \/ BlurHex
  \/ PickColor
  \/ InsertAfter
  \/ DeleteAt
  \/ RequestGenerate
  \/ CommitGenerate
  \/ LoadPalette
  \/ VisualizerGenerateNew
  \/ VisualizerCycle

SpecApp == InitApp /\ [][NextApp]_vars

(***************************************************************************)
(* The application, mode revision: a harmony mode, gradient anchors and a  *)
(* step count beside the palette, no limit on the number of swatches, and  *)
(* an effect that regenerates whenever the app renders in gradient mode    *)
(* with a changed mode, anchor, step count or palette.  Of the URL the     *)
(* sync effect writes, `url` keeps the `colors` parameter; the `mode` and  *)
(* `gradient` parameters repeat the state variables of those names.        *)
(***************************************************************************)
DecimalDigits == <<"0", "1", "2", "3", "4", "5", "6", "7", "8", "9">>

NaN == -1

\* Number.parseInt(str, 10) of an unsigned text: the leading decimal digits
RECURSIVE parseDigits(_, _)
parseDigits(str, acc) ==
  IF Len(str) > 0 /\ \E d \in 1..10 : DecimalDigits[d] = Head(str)
  THEN parseDigits(Tail(str), 10 * acc + (CHOOSE d \in 1..10 : DecimalDigits[d] = Head(str)) - 1)
  ELSE acc

parseInt(str) ==
  LET t == TrimLeft(str)
  IN  IF Len(t) > 0 /\ \E d \in 1..10 : DecimalDigits[d] = Head(t)
      THEN parseDigits(t, 0)
      ELSE NaN

\* hexes.map((hex) => ({ id: createColorId(), hex: normalizeHex(hex), locked: false }))
createPaletteFromHexesMode(hexes, firstId) ==
  [k \in 1..Len(hexes) |->
     [id |-> firstId + k - 1, hex |-> normalizeHex(hexes[k]), locked |-> FALSE]]

\* parsePaletteFromUrl() of the mode revision: palette, mode and gradient state
parsePaletteFromUrlMode(colorsParam, modeParam, gradientParam, firstId) ==
  LET parts == split(gradientParam, "_")
      start == parts[1]
      end == IF Len(parts) >= 2 THEN parts[2] ELSE <<>>
      parsedSteps == IF Len(parts) >= 3 THEN parseInt(parts[3]) ELSE 5
  IN  [palette |->
         IF colorsParam # <<>> /\ Len(parseColors(colorsParam)) > 0
         THEN createPaletteFromHexesMode(parseColors(colorsParam), firstId)
         ELSE createPaletteFromHexesMode(DEFAULT_HEXES, firstId),
       mode |-> IF modeParam \in Modes THEN modeParam ELSE "random",
       gradientStart |->
         IF gradientParam # <<>> /\ start # <<>>
         THEN <<"#">> \o replaceFirst(start, "#")
         ELSE <<"#", "2", "5", "6", "3", "e", "b">>,
       gradientEnd |->
         IF gradientParam # <<>> /\ end # <<>>
         THEN <<"#">> \o replaceFirst(end, "#")
         ELSE <<"#", "f", "9", "7", "3", "1", "6">>,
       gradientSteps |->
         IF gradientParam # <<>> /\ parsedSteps # NaN /\ parsedSteps > 1 /\ parsedSteps < 12
         THEN parsedSteps
         ELSE 5]

\* generatePalette(nextMode) up to requestAnimationFrame, called from a
\* render with mode m: what the callback closes over.  The base colour is
\* drawn only for an empty palette, with the generator in state s.
requestOfMode(pal, activeMode, m, start, end, gsteps, s) ==
  LET targetLength == IF m = "gradient" THEN gsteps
                      ELSE IF Len(pal) = 0 THEN DefaultLength ELSE Len(pal)
  IN  [palette |-> pal,
       activeMode |-> activeMode,
       length |-> IF activeMode = "gradient" THEN gsteps ELSE targetLength,
       baseColor |->
         IF \E k \in 1..Len(pal) : pal[k].locked
         THEN pal[CHOOSE k \in 1..Len(pal) :
                    pal[k].locked /\ \A j \in 1..(k - 1) : ~pal[j].locked].hex
         ELSE IF Len(pal) > 0 THEN pal[1].hex ELSE randomPleasantHex(s),
       gradientStart |-> start,
       gradientEnd |-> end]

\* the callback's generatedColors
generatedColorsOf(request, s) ==
  IF request.activeMode = "gradient"
  THEN generateGradientPalette(request.gradientStart, request.gradientEnd,
                               request.length, s).colors
  ELSE generatePaletteByMode(request.baseColor, request.activeMode, request.length, s).colors

\* the callback's nextPalette: generatedColors with the locked swatches of
\* the palette it closed over put back at their index
overlayLocked(request, generatedColors, s, firstId) ==
  LET captured == request.palette
  IN  [k \in 1..request.length |->
         IF k <= Len(captured) /\ captured[k].locked THEN captured[k]
         ELSE [id |-> IF k <= Len(captured) THEN captured[k].id
                      ELSE firstId + (k - Len(captured)) - 1,
               hex |-> IF Len(generatedColors) = 0 THEN randomPleasantHex(s)
                       ELSE generatedColors[((k - 1) % Len(generatedColors)) + 1],
               locked |-> IF k <= Len(captured) THEN captured[k].locked ELSE FALSE]]

\* insertAfter(index) of the mode revision: no limit
insertAfterMode(current, index, newId, s) ==
  SubSeq(current, 1, index + 1)
    \o <<[id |-> newId, hex |-> randomPleasantHex(s), locked |-> FALSE]>>
    \o SubSeq(current, index + 2, Len(current))

\* deleteAt(index) of the mode revision
deleteAtMode(current, index, firstId) ==
  IF Len(current) <= MinSwatches THEN current
  ELSE LET next == SubSeq(current, 1, index) \o SubSeq(current, index + 2, Len(current))
       IN  IF Len(next) = 0 THEN createPaletteFromHexesMode(DEFAULT_HEXES, firstId) ELSE next

(***************************************************************************)
(* Inputs of the mode revision: the parameters of the page URL, the values *)
(* of the mode select, of the step slider (3 to 10) and of a colour input. *)
(***************************************************************************)
ModeUrlColors == {<<>>, <<"2", "5", "6", "3", "e", "b", "-", "f", "9", "7", "3", "1", "6">>}

ModeUrlModes == {"", "gradient", "monochrome"}

ModeUrlGradients == {<<>>, <<"f", "f", "0", "0", "0", "0", "_", "0", "0", "0", "0", "f", "f", "_", "3">>, <<"z", "z", "z", "_", "_", "1", "1">>}

StepInputs == {3, 10}

AnchorInputs == {<<"#", "0", "0", "0", "0", "f", "f">>}

InitModeApp ==
  /\ op = "parsePaletteFromUrl"
  /\ arg \in ModeUrlColors
  /\ arg2 \in ModeUrlGradients
  /\ length = 0
  /\ seed = 0
  /\ seed2 = 0
  /\ out = <<>>
  /\ ok = FALSE
  /\ colors = NoColors
  /\ colors2 = NoColors
  /\ hsl = <<>>
  /\ draws = 0
  /\ \E modeParam \in ModeUrlModes :
       LET initialState == parsePaletteFromUrlMode(arg, modeParam, arg2, 1)
       IN  /\ palette = initialState.palette
           /\ mode = initialState.mode
           /\ gradientStart = initialState.gradientStart
           /\ gradientEnd = initialState.gradientEnd
           /\ gradientSteps = initialState.gradientSteps
  /\ pending = IF mode = "gradient"
               THEN <<requestOfMode(palette, "gradient", mode, gradientStart, gradientEnd,
                                    gradientSteps, seed)>>
               ELSE <<>>
  /\ generatorBusy = (mode = "gradient")
  /\ editing = NoEdit
  /\ url = colorsParamOf(palette)
  /\ nextId = Len(palette) + 1
  /\ before = NoBefore
  /\ events = 0
  /\ NoOther

\* what every handler of the mode revision leaves behind.  `queue` and `busy`
\* are the pending callbacks and generatorBusy as the handler leaves them;
\* `changed` says that the mode, an anchor, the step count or the palette is
\* a new value, so that the gradient effect runs after the render.
ModeRendered(name, s, nextPalette, nextMode, nextStart, nextEnd, nextSteps, queue, busy, changed, target, ids) ==
  /\ op' = name
  /\ seed' = s
  /\ palette' = nextPalette
  /\ mode' = nextMode
  /\ gradientStart' = nextStart
  /\ gradientEnd' = nextEnd
  /\ gradientSteps' = nextSteps
  /\ url' = colorsParamOf(palette')
  /\ pending' = IF nextMode = "gradient" /\ changed
                THEN Append(queue, requestOfMode(palette', "gradient", nextMode, nextStart,
                                                 nextEnd, nextSteps, s))
                ELSE queue
  /\ generatorBusy' = (busy \/ (nextMode = "gradient" /\ changed))
  /\ nextId' = nextId + ids
  /\ before' = [palette |-> palette, editing |-> editing,
                request |-> IF name = "generatePalette" THEN Head(pending) ELSE NoRequest,
                target |-> target]
  /\ UNCHANGED <<arg, arg2, length, seed2, out, ok, colors2, hsl, draws, editing>>
  /\ UNCHANGED otherVars

\* a render that follows one of the events the model counts
ModeRender(name, s, nextPalette, nextMode, nextStart, nextEnd, nextSteps, queue, busy, changed, target, ids) ==
  /\ events < MaxEvents
  /\ events' = events + 1
  /\ ModeRendered(name, s, nextPalette, nextMode, nextStart, nextEnd, nextSteps, queue, busy, changed, target, ids)

\* the lock button of swatch i
ModeToggleLock ==
  \E i \in Touched(palette) :
    /\ ModeRender("toggleLock", seed, toggleLock(palette, palette[i].id), mode,
                  gradientStart, gradientEnd, gradientSteps,
                  pending, generatorBusy, TRUE, i, 0)
    /\ UNCHANGED colors

\* the mode select: setMode(value), and generatePalette(value) at once
\* unless the value is gradient
SelectMode ==
  \E value \in Modes :
    /\ value # mode
    /\ IF value # "gradient"
       THEN ModeRender("setMode", seed, palette, value, gradientStart, gradientEnd,
                       gradientSteps,
                       Append(pending, requestOfMode(palette, value, mode, gradientStart,
                                                     gradientEnd, gradientSteps, seed)),
                       TRUE, TRUE, 0, 0)
       ELSE ModeRender("setMode", seed, palette, value, gradientStart, gradientEnd,
                       gradientSteps, pending, generatorBusy, TRUE, 0, 0)
    /\ UNCHANGED colors

\* the Regenerate button, disabled while generatorBusy: generatePalette()
ModeRequestGenerate ==
  /\ ~generatorBusy
  /\ ModeRender("requestGenerate", seed, palette, mode, gradientStart, gradientEnd,
                gradientSteps,
                Append(pending, requestOfMode(palette, mode, mode, gradientStart,
                                              gradientEnd, gradientSteps, seed)),
                TRUE, FALSE, 0, 0)
  /\ UNCHANGED colors

\* the animation frame: the callback of the oldest request runs
ModeCommitGenerate ==
  \E s \in AppSeeds :
    /\ pending # <<>>
    /\ colors' = generatedColorsOf(Head(pending), s)
    /\ ModeRender("generatePalette", s, overlayLocked(Head(pending), colors', s, nextId),
                  mode, gradientStart, gradientEnd, gradientSteps,
                  Tail(pending), FALSE, TRUE, 0, freshIds(Head(pending)))

\* the step slider, shown in gradient mode
SetGradientSteps ==
  \E n \in StepInputs :
    /\ mode = "gradient"
    /\ n # gradientSteps
    /\ ModeRender("setGradientSteps", seed, palette, mode, gradientStart, gradientEnd, n,
                  pending, generatorBusy, TRUE, 0, 0)
    /\ UNCHANGED colors

\* the start colour input, shown in gradient mode
SetGradientStart ==
  \E value \in AnchorInputs :
    /\ mode = "gradient"
    /\ value # gradientStart
    /\ ModeRender("setGradientStart", seed, palette, mode, value, gradientEnd, gradientSteps,
                  pending, generatorBusy, TRUE, 0, 0)
    /\ UNCHANGED colors

\* the end colour input, shown in gradient mode
SetGradientEnd ==
  \E value \in AnchorInputs :
    /\ mode = "gradient"
    /\ value # gradientEnd
    /\ ModeRender("setGradientEnd", seed, palette, mode, gradientStart, value, gradientSteps,
                  pending, generatorBusy, TRUE, 0, 0)
    /\ UNCHANGED colors

\* the insert button of swatch i
ModeInsertAfter ==
  \E i \in Touched(palette), s \in AppSeeds :
    /\ ModeRender("insertAfter", s, insertAfterMode(palette, i - 1, nextId, s), mode,
                  gradientStart, gradientEnd, gradientSteps,
                  pending, generatorBusy, TRUE, i, 1)
    /\ UNCHANGED colors

\* the delete button of swatch i; at two swatches the state is not replaced
ModeDeleteAt ==
  \E i \in Touched(palette) :
    /\ ModeRender("deleteAt", seed, deleteAtMode(palette, i - 1, nextId), mode,
                  gradientStart, gradientEnd, gradientSteps,
                  pending, generatorBusy, Len(palette) > MinSwatches, i, 0)
    /\ UNCHANGED colors

NextModeApp ==
  \/ ModeToggleLock
  \/ SelectMode
  \/ ModeRequestGenerate
  \/ ModeCommitGenerate
  \/ SetGradientSteps
  \/ SetGradientStart
  \/ SetGradientEnd
  \/ ModeInsertAfter
  \/ ModeDeleteAt

SpecModeApp == InitModeApp /\ [][NextModeApp]_vars

(***************************************************************************)
(* The mode revision with its animation frames left to the browser: the    *)
(* user's events are counted and stop, a frame runs whenever a callback is *)
(* pending, and the browser does not postpone a pending frame for ever.    *)
(***************************************************************************)
MaxUserEvents == 1

\* the animation frame: the callback of the oldest request runs
AnimationFrame ==
  \E s \in AppSeeds :
    /\ pending # <<>>
    /\ colors' = generatedColorsOf(Head(pending), s)
    /\ ModeRendered("generatePalette", s, overlayLocked(Head(pending), colors', s, nextId),
                    mode, gradientStart, gradientEnd, gradientSteps,
                    Tail(pending), FALSE, TRUE, 0, freshIds(Head(pending)))
    /\ UNCHANGED events

\* the user's events, as above, while the user is still at it
UserToggleLock == events < MaxUserEvents /\ ModeToggleLock

UserSelectMode == events < MaxUserEvents /\ SelectMode

UserRequestGenerate == events < MaxUserEvents /\ ModeRequestGenerate

UserSetGradientSteps == events < MaxUserEvents /\ SetGradientSteps

UserSetGradientStart == events < MaxUserEvents /\ SetGradientStart

UserSetGradientEnd == events < MaxUserEvents /\ SetGradientEnd

UserInsertAfter == events < MaxUserEvents /\ ModeInsertAfter

UserDeleteAt == events < MaxUserEvents /\ ModeDeleteAt

NextModeFrames ==
  \/ UserToggleLock
  \/ UserSelectMode
  \/ UserRequestGenerate
  \/ AnimationFrame
  \/ UserSetGradientSteps
  \/ UserSetGradientStart
  \/ UserSetGradientEnd
  \/ UserInsertAfter
  \/ UserDeleteAt

\* what tells an animation frame from every other step: a callback was
\* pending and the step is the one that records "generatePalette".  The
\* callbacks draw from Math.random, so that a frame can always be told from
\* no step at all.
FrameRuns ==
  /\ pending # <<>>
  /\ op' = "generatePalette"
  /\ seed' \in AppSeeds

\* the browser runs a frame as long as a callback is pending
SpecModeFrames == InitModeApp /\ [][NextModeFrames]_vars /\ WF_<<op, seed>>(FrameRuns)

(***************************************************************************)
(* Voting on a shared palette (TrendingPalettes.handleVote).  The document *)
(* holds two counters and two voter lists.  A call reads the document with *)
(* getDoc, computes its updates from what it read, and writes them with    *)
(* updateDoc: the counters as plain values, the lists as arrayUnion and    *)
(* arrayRemove transforms, which Firestore applies to the document as it   *)
(* is when the write arrives.  A list written only through these           *)
(* transforms has no duplicates and is modelled as a set.                  *)
(***************************************************************************)
MaxVotes == 4

Uids == {"u1", "u2"}

\* the browser sessions a call can come from
Sessions == {1, 2}

VoteTypes == {"upvote", "downvote"}

\* a field updateDoc leaves as it is
Untouched == -1

\* a plausible slip: a new vote leaves the opposite vote in place
handleVoteKeepsOpposite(data, uid, voteType) ==
  LET hasUpvoted == uid \in data.upvotedBy
      hasDownvoted == uid \in data.downvotedBy
  IN  IF voteType = "upvote"
      THEN IF hasUpvoted
           THEN [upvotedBy |-> "arrayRemove", upvotes |-> Max2(0, data.upvotes - 1),
                 downvotedBy |-> "", downvotes |-> Untouched]
           ELSE [upvotedBy |-> "arrayUnion", upvotes |-> data.upvotes + 1,
                 downvotedBy |-> "", downvotes |-> Untouched]
      ELSE IF hasDownvoted
           THEN [downvotedBy |-> "arrayRemove", downvotes |-> Max2(0, data.downvotes - 1),
                 upvotedBy |-> "", upvotes |-> Untouched]
           ELSE [downvotedBy |-> "arrayUnion", downvotes |-> data.downvotes + 1,
                 upvotedBy |-> "", upvotes |-> Untouched]

\* the `updates` object handleVote builds from the document it read
handleVote(data, uid, voteType) ==
  LET hasUpvoted == uid \in data.upvotedBy
      hasDownvoted == uid \in data.downvotedBy
  IN  IF voteType = "upvote"
      THEN IF hasUpvoted
           THEN [upvotedBy |-> "arrayRemove", upvotes |-> Max2(0, data.upvotes - 1),
                 downvotedBy |-> "", downvotes |-> Untouched]
           ELSE [upvotedBy |-> "arrayUnion", upvotes |-> data.upvotes + 1,
                 downvotedBy |-> IF hasDownvoted THEN "arrayRemove" ELSE "",
                 downvotes |-> IF hasDownvoted THEN Max2(0, data.downvotes - 1)
                               ELSE Untouched]
      ELSE IF hasDownvoted
           THEN [downvotedBy |-> "arrayRemove", downvotes |-> Max2(0, data.downvotes - 1),
                 upvotedBy |-> "", upvotes |-> Untouched]
           ELSE [downvotedBy |-> "arrayUnion", downvotes |-> data.downvotes + 1,
                 upvotedBy |-> IF hasUpvoted THEN "arrayRemove" ELSE "",
                 upvotes |-> IF hasUpvoted THEN Max2(0, data.upvotes - 1) ELSE Untouched]

\* arrayUnion(uid) and arrayRemove(uid) on the list as the document has it
transform(list, how, uid) ==
  CASE how = "arrayUnion" -> list \cup {uid}
    [] how = "arrayRemove" -> list \ {uid}
    [] OTHER -> list

\* updateDoc(paletteRef, updates) on the document as it is now
updateDoc(document, updates, uid) ==
  [upvotes |-> IF updates.upvotes = Untouched THEN document.upvotes ELSE updates.upvotes,
   downvotes |-> IF updates.downvotes = Untouched THEN document.downvotes
                 ELSE updates.downvotes,
   upvotedBy |-> transform(document.upvotedBy, updates.upvotedBy, uid),
   downvotedBy |-> transform(document.downvotedBy, updates.downvotedBy, uid)]

\* the palette was shared with no votes; no call is under way
InitVotes ==
  /\ op = "input"
  /\ arg = <<>>
  /\ arg2 = <<>>
  /\ mode = "random"
  /\ length = 0
  /\ seed = 0
  /\ seed2 = 0
  /\ out = <<>>
  /\ ok = FALSE
  /\ colors = NoColors
  /\ colors2 = NoColors
  /\ hsl = <<>>
  /\ draws = 0
  /\ NoAppState
  /\ NoHues
  /\ NoStorage
  /\ sharedPalette = NoDocument
  /\ calls = [c \in Sessions |-> NoCall]
  /\ votesCast = 0

\* handleVote up to `await getDoc`: the signed-in user of a session clicks
\* a vote button and the call receives the document
VoteGetDoc ==
  \E c \in Sessions, uid \in Uids, voteType \in VoteTypes :
    /\ votesCast < MaxVotes
    /\ calls[c] = NoCall
    /\ calls' = [calls EXCEPT ![c] = [uid |-> uid, voteType |-> voteType,
                                      data |-> sharedPalette]]
    /\ votesCast' = votesCast + 1
    /\ op' = "getDoc"
    /\ UNCHANGED sharedPalette
    /\ UNCHANGED <<arg, arg2, mode, length, seed, seed2, out, ok, colors, colors2, hsl, draws>>
    /\ UNCHANGED <<appVars, hueVars, storageVars>>

\* the rest of handleVote: the updates are built from the document read and
\* written; a write that fails is caught and changes nothing
VoteUpdateDoc ==
  \E c \in Sessions, written \in BOOLEAN :
    /\ calls[c] # NoCall
    /\ sharedPalette' = IF written
                        THEN updateDoc(sharedPalette,
                                       handleVote(calls[c].data, calls[c].uid, calls[c].voteType),
                                       calls[c].uid)
                        ELSE sharedPalette
    /\ calls' = [calls EXCEPT ![c] = NoCall]
    /\ op' = IF written THEN "updateDoc" ELSE "catch"
    /\ UNCHANGED votesCast
    /\ UNCHANGED <<arg, arg2, mode, length, seed, seed2, out, ok, colors, colors2, hsl, draws>>
    /\ UNCHANGED <<appVars, hueVars, storageVars>>

\* a call that starts when no other call is under way
VoteGetDocAlone ==
  /\ \A c \in Sessions : calls[c] = NoCall
  /\ VoteGetDoc

\* calls that each complete before the next starts
NextVotesInTurn == VoteGetDocAlone \/ VoteUpdateDoc

SpecVotesInTurn == InitVotes /\ [][NextVotesInTurn]_vars

\* calls from the sessions in any interleaving
NextVotes == VoteGetDoc \/ VoteUpdateDoc

SpecVotes == InitVotes /\ [][NextVotes]_vars

(***************************************************************************)
(* Saved palettes (usePaletteStorage).  The hook's effect runs when the    *)
(* user changes: its cleanup unsubscribes the listener of the previous     *)
(* user, then, with a user, it sets loading and subscribes to that user's  *)
(* palettes.  The listener delivers snapshots until it reports an error,   *)
(* which ends it.                                                          *)
(***************************************************************************)
MaxAuthEvents == 5

\* createdAt of the documents a snapshot can hold
SavedDocs == {1, 2}

ErrorCodes == {"failed-precondition", "permission-denied", "unavailable"}

\* docs.sort((a, b) => b.createdAt.getTime() - a.createdAt.getTime())
sortNewestFirst(docs) ==
  IF docs = {} THEN <<>>
  ELSE IF Cardinality(docs) = 1 THEN <<CHOOSE d \in docs : TRUE>>
  ELSE <<CHOOSE d \in docs : \A e \in docs : e <= d, CHOOSE d \in docs : \A e \in docs : d <= e>>

\* the message setError is given for an error of the listener
messageOf(code) ==
  CASE code = "failed-precondition" -> "Firestore index missing"
    [] code = "permission-denied" -> "Permission denied"
    [] OTHER -> "Failed to load palettes"

\* the hook is mounted with nobody signed in: setPalettes([]), setError(null)
InitStorage ==
  /\ op = "usePaletteStorage"
  /\ arg = <<>>
  /\ arg2 = <<>>
  /\ mode = "random"
  /\ length = 0
  /\ seed = 0
  /\ seed2 = 0
  /\ out = <<>>
  /\ ok = FALSE
  /\ colors = NoColors
  /\ colors2 = NoColors
  /\ hsl = <<>>
  /\ draws = 0
  /\ NoAppState
  /\ NoHues
  /\ NoVotes
  /\ user = NoUser
  /\ loading = FALSE
  /\ storageError = ""
  /\ savedPalettes = <<>>
  /\ subscription = NoSubscription
  /\ authEvents = 0

\* what an event of the hook leaves alone
StorageEvent(name) ==
  /\ authEvents < MaxAuthEvents
  /\ authEvents' = authEvents + 1
  /\ op' = name
  /\ UNCHANGED <<arg, arg2, mode, length, seed, seed2, out, ok, colors, colors2, hsl, draws>>
  /\ UNCHANGED <<appVars, hueVars, voteVars>>

\* somebody signs in, or another account replaces the one signed in: the
\* cleanup of the previous effect, then setLoading(true), setError(null)
\* and onSnapshot
SignIn ==
  \E uid \in Uids :
    /\ uid # user
    /\ StorageEvent("signIn")
    /\ user' = uid
    /\ loading' = TRUE
    /\ storageError' = ""
    /\ subscription' = [uid |-> uid, status |-> "awaiting"]
    /\ UNCHANGED savedPalettes

\* the user signs out: the cleanup of the previous effect, then
\* setPalettes([]), setError(null) and return
SignOut ==
  /\ user # NoUser
  /\ StorageEvent("signOut")
  /\ user' = NoUser
  /\ savedPalettes' = <<>>
  /\ storageError' = ""
  /\ subscription' = NoSubscription
  /\ UNCHANGED loading

\* the listener's first or a later snapshot
Snapshot ==
  \E docs \in SUBSET SavedDocs :
    /\ subscription.status \in {"awaiting", "listening"}
    /\ StorageEvent("snapshot")
    /\ savedPalettes' = sortNewestFirst(docs)
    /\ loading' = FALSE
    /\ storageError' = ""
    /\ subscription' = [subscription EXCEPT !.status = "listening"]
    /\ UNCHANGED user

\* the listener's error callback; Firestore sends nothing after an error
SnapshotError ==
  \E code \in ErrorCodes :
    /\ subscription.status \in {"awaiting", "listening"}
    /\ StorageEvent("snapshotError")
    /\ storageError' = messageOf(code)
    /\ loading' = FALSE
    /\ subscription' = [subscription EXCEPT !.status = "failed"]
    /\ UNCHANGED <<user, savedPalettes>>

NextStorage == SignIn \/ SignOut \/ Snapshot \/ SnapshotError

SpecStorage == InitStorage /\ [][NextStorage]_vars

(***************************************************************************)
(* Properties of the hex helpers.                                          *)
(***************************************************************************)
\* the hexadecimal digits of a trimmed string, without one leading '#'
DigitsOf(str) ==
  LET t == trim(str) IN IF Len(t) > 0 /\ t[1] = "#" THEN Tail(t) ELSE t

\* a 3-digit shorthand, with or without the leading '#'
IsShorthand(str) == DigitsOf(str) \in [1..3 -> HexClass]

\* ^#[0-9A-F]{6}$
IsCanonical(str) ==
  /\ Len(str) = 7
  /\ str[1] = "#"
  /\ \A k \in 2..7 : str[k] \in UpperHexClass

\* C1: for every string that isValidHex accepts or that is a 3-digit shorthand,
\* normalizeHex applied twice gives what it gives applied once, and its result
\* is '#' followed by six upper-case hexadecimal digits.
C1_NormalizeIdempotentCanonical ==
  (op = "normalizeHex" /\ (isValidHex(arg) \/ IsShorthand(arg)))
    => (normalizeHex(out) = out /\ IsCanonical(out))

\* C2: for every 3-digit shorthand, normalizeHex returns '#' followed by each
\* digit twice, in upper case.
C2_ShorthandExpandsUpperCase ==
  (op = "normalizeHex" /\ IsShorthand(arg))
    => out = <<"#">> \o toUpperCase(repeatEach(DigitsOf(arg)))

\* C3: isValidHex is true exactly when the trimmed input is an optional single
\* '#' followed by exactly six hexadecimal digits of either case; three, five
\* and seven digits are rejected.
C3_IsValidHexIffSixDigits ==
  op = "isValidHex" =>
    LET t == trim(arg)
    IN  /\ ok = (\/ t \in [1..6 -> HexClass]
                 \/ (Len(t) = 7 /\ t[1] = "#" /\ Tail(t) \in [1..6 -> HexClass]))
        /\ (Len(DigitsOf(arg)) \in {3, 5, 7} /\ Len(t) - Len(DigitsOf(arg)) <= 1) => ~ok

C3_Witness ==
  (op = "isValidHex" /\ ok /\ arg = <<" ", "#", "a", "C", "9", "a", "C", "9", " ">>)

(***************************************************************************)
(* Properties of generatePaletteByMode.                                    *)
(***************************************************************************)
\* the base parses, after normalizeHex, to a colour with a defined hue
HasHue(str) ==
  LET c == toHsl(parse(normalizeHex(str))) IN c # NoColor /\ c.h # NoHue

AllValidHex(seq) == \A k \in 1..Len(seq) : isValidHex(seq[k])

\* C4: for each of the seven modes, every valid base hex and every length, the
\* result has exactly `length` elements and isValidHex accepts each of them.
C4_LengthAndValidity ==
  (op = "generatePaletteByMode" /\ mode \in Modes /\ isValidHex(arg))
    => (Len(colors) = length /\ AllValidHex(colors))

C4_Witness ==
  /\ op = "generatePaletteByMode"
  /\ mode = "triadic"
  /\ length = MaxLength
  /\ arg = <<"#", "2", "5", "6", "3", "e", "b">>
  /\ Len(colors) = MaxLength
  /\ AllValidHex(colors)

\* C5: for every mode, gradient included, a base that does not parse as a
\* colour still gives exactly `length` valid hex colours.
C5_UnparseableBaseStillValid ==
  (op = "generatePaletteByMode" /\ mode \in Modes /\ parse(arg) = NoColor)
    => (Len(colors) = length /\ AllValidHex(colors))

C7_DeterministicOutsideRandom ==
  (mode \in (Modes \ {"random"}) /\ HasHue(arg))
    => /\ op = "generatePaletteByModeAgain" => colors2 = colors
       /\ op = "generatePaletteByMode" => draws = 0

C7_Witness ==
  /\ op = "generatePaletteByModeAgain"
  /\ mode = "analogous"
  /\ HasHue(arg)
  /\ seed # seed2
  /\ length = 5
  /\ colors2 = colors

\* C8: in complementary mode with a base of defined hue H0, every even index
\* has hue H0 and every odd index hue (H0 + 180) mod 360; for base #FF0000 and
\* length 4 the hues read back from the output are 0, 180, 0, 180.
C8_ComplementaryAlternation ==
  (op = "generatePaletteByMode" /\ mode = "complementary" /\ HasHue(arg))
    => LET h0 == toHsl(parse(normalizeHex(arg))).h
       IN  /\ \A k \in 1..length :
                hsl[k].h = IF (k - 1) % 2 = 0 THEN h0 ELSE (h0 + 180 * HueUnit) % FullTurn
           /\ (arg = <<"#", "F", "F", "0", "0", "0", "0">> /\ length = 4) =>
                \A k \in 1..4 :
                  toHsl(parse(colors[k])).h = IF (k - 1) % 2 = 0 THEN 0 ELSE 180 * HueUnit

C8_Witness ==
  /\ op = "generatePaletteByMode"
  /\ mode = "complementary"
  /\ arg = <<"#", "F", "F", "0", "0", "0", "0">>
  /\ length = 4
  /\ toHsl(parse(colors[2])).h = 180 * HueUnit
  /\ toHsl(parse(colors[3])).h = 0

(***************************************************************************)
(* Properties of generateGradientPalette.                                  *)
(***************************************************************************)
BothParse == parse(arg) # NoColor /\ parse(arg2) # NoColor

C10_FallbackIsRandom ==
  (op = "generateGradientPalette" /\ ~BothParse)
    => /\ Len(colors) = length
       /\ draws = 3 * length
       /\ \A k \in 1..length : colors[k] = randomPleasantHex(randomAfter(seed, 3 * (k - 1)))

C10_Witness ==
  /\ op = "generateGradientPalette"
  /\ arg = <<"#", "2", "5", "6", "3", "E", "B">>
  /\ arg2 = <<"z", "z", "z", "z", "z", "z">>
  /\ length = 5
  /\ draws = 15
  /\ Len(colors) = 5

(***************************************************************************)
(* Properties of the mode dispatch, the contrast helper and the random     *)
(* colour source.                                                          *)
(***************************************************************************)
\* C11: in gradient mode the output of generatePaletteByMode is the result of
\* generateGradientPalette for two endpoint colours, not a sequence made from
\* the single base colour.
C11_GradientDelegates ==
  (op = "generatePaletteByMode" /\ mode = "gradient")
    => \E a \in BaseInputs \cup GradientInputs, b \in BaseInputs \cup GradientInputs :
         colors = generateGradientPalette(a, b, length, seed).colors

\* C12: a mode outside the seven tags gives what random gives: exactly `length`
\* colours, each the result of its own randomPleasantHex() call, each accepted
\* by isValidHex, whatever the base colour is.
C12_UnrecognisedModeIsRandom ==
  (op = "generatePaletteByMode" /\ mode \notin Modes)
    => /\ Len(colors) = length
       /\ draws = 3 * length
       /\ \A k \in 1..length : colors[k] = randomPleasantHex(randomAfter(seed, 3 * (k - 1)))
       /\ AllValidHex(colors)
       /\ colors = generatePaletteByMode(arg, "random", length, seed).colors
       /\ \A b \in BaseInputs : generatePaletteByMode(b, mode, length, seed).colors = colors

\* the tag "monochrome" with a base that would give the hue modes a fixed hue
C12_Witness ==
  /\ op = "generatePaletteByMode"
  /\ mode = "monochrome"
  /\ arg = <<"#", "F", "F", "0", "0", "0", "0">>
  /\ length = 5
  /\ draws = 15
  /\ Len(colors) = 5

\* C13: for a colour that parses, getReadableTextColor returns '#0f172a' when
\* 0.2126 R + 0.7152 G + 0.0722 B > 0.55 and '#f8fafc' otherwise; white gives
\* '#0f172a', black gives '#f8fafc', and nothing else is ever returned.
C13_ReadableTextThreshold ==
  (op = "getReadableTextColor")
    => /\ out \in {DarkText, LightText}
       /\ (parse(arg) # NoColor) =>
            LET c == parse(arg)
            IN  out = IF 2126 * c.r + 7152 * c.g + 722 * c.b > 5500 * 255
                      THEN DarkText ELSE LightText
       /\ (arg = <<"#", "F", "F", "F", "F", "F", "F">>) => out = DarkText
       /\ (arg = <<"#", "0", "0", "0", "0", "0", "0">>) => out = LightText

\* the grey just under the threshold: 140 / 255 = 0.549
C13_Witness ==
  /\ op = "getReadableTextColor"
  /\ arg = <<"#", "8", "c", "8", "c", "8", "c">>
  /\ out = LightText

\* C20: every colour randomPleasantHex produces is built from a hue in
\* [0, 360), a saturation in [0.45, 0.80] and a lightness in [0.40, 0.60].
C20_RandomPleasantBands ==
  (op = "generatePaletteByMode" /\ mode = "random")
    => \A k \in 1..length :
         LET c == randomPleasantHsl(randomAfter(seed, 3 * (k - 1)))
         IN  /\ colors[k] = formatHexHsl(c.h, c.s, c.l)
             /\ 0 <= c.h /\ c.h < FullTurn
             /\ 45 * Unit <= 100 * c.s /\ 100 * c.s <= 80 * Unit
             /\ 40 * Unit <= 100 * c.l /\ 100 * c.l <= 60 * Unit

\* a palette long enough to see every state of the random source
C20_Witness ==
  /\ op = "generatePaletteByMode"
  /\ mode = "random"
  /\ length = MaxLength
  /\ \E k \in 1..length :
       100 * randomPleasantHsl(randomAfter(seed, 3 * (k - 1))).l > 55 * Unit

(***************************************************************************)
(* Properties of the application, later revision.                          *)
(***************************************************************************)
\* C14: in every reachable state of the application every hex stored in the
\* palette is canonical: '#' followed by six upper-case hexadecimal digits.
C14_StoredHexCanonical ==
  \A k \in 1..Len(palette) : IsCanonical(palette[k].hex)

\* the swatches an action must leave alone: locked before it, by id
LockedKept(old, new) ==
  \A k \in 1..Len(old) :
    old[k].locked => \E j \in 1..Len(new) : new[j] = old[k]

\* C16: every palette-generating action, the visualizer's "Generate New
\* Palette" and colour-cycle click included, leaves each locked swatch locked
\* and with its hex; only toggleLock changes the locked flag of a swatch.
C16_GeneratingKeepsLocked ==
  /\ (op \in {"generatePalette", "handleGenerateNew", "cycleColor"})
       => LockedKept(before.palette, palette)
  /\ (op \in {"setEditingHex", "handleHexBlur", "updateHex", "insertAfter", "deleteAt",
              "requestGenerate", "generatePalette", "handleGenerateNew", "cycleColor"})
       => \A k \in 1..Len(before.palette), j \in 1..Len(palette) :
            palette[j].id = before.palette[k].id
              => palette[j].locked = before.palette[k].locked

\* C17: writing the palette's hexes as the `colors` parameter and parsing the
\* parameter back gives the same number of colours and the same hex string
\* at every position.
C17_UrlRoundTrip ==
  LET back == parsePaletteFromUrl(url, 1)
  IN  /\ url = colorsParamOf(palette)
      /\ Len(back) = Len(palette)
      /\ \A k \in 1..Len(palette) : back[k].hex = palette[k].hex

\* C18: committing the typed text of a swatch (blur or Enter) changes the
\* palette only if isValidHex accepts the text, and then only the hex of that
\* swatch, to normalizeHex of the text; a rejected text leaves the palette as
\* it was and the input shows the swatch's hex again.
C18_CommitOnlyValidHex ==
  (op = "handleHexBlur")
    => LET old == before.palette
           ed == before.editing
       IN  IF isValidHex(ed.text)
           THEN /\ Len(palette) = Len(old)
                /\ \A k \in 1..Len(old) :
                     palette[k] = IF old[k].id = ed.id
                                  THEN [old[k] EXCEPT !.hex = normalizeHex(ed.text)]
                                  ELSE old[k]
                /\ Cardinality({k \in 1..Len(old) : old[k].id = ed.id}) = 1
           ELSE /\ palette = old
                /\ editing.id = ed.id
                /\ editing.text = hexOf(old, ed.id)

\* a rejected text: "#12" typed over a colour, then the input loses the focus
C18_Witness ==
  /\ op = "handleHexBlur"
  /\ before.editing.text = <<"#", "1", "2">>
  /\ Len(palette) >= 2
  /\ palette = before.palette
  /\ editing.text = hexOf(palette, editing.id)
  /\ editing.text # <<"#", "1", "2">>

\* C19: in the later revision the palette has at least 2 and at most 6
\* colours in every reachable state.
C19_LengthWithinTwoToSix ==
  MinSwatches <= Len(palette) /\ Len(palette) <= MaxSwatches

(***************************************************************************)
(* Properties of regeneration in the mode revision.                        *)
(***************************************************************************)
\* C15: when a regeneration commits, every swatch that was locked in the
\* palette at the time the regeneration was requested is in the committed
\* palette at the same index, with the same id and hex and still locked, in
\* every mode, gradient included.
C15_LockedOverlaidByIndex ==
  (op = "generatePalette")
    => \A i \in 1..Len(before.request.palette) :
         before.request.palette[i].locked
           => (i <= Len(palette) /\ palette[i] = before.request.palette[i])

(***************************************************************************)
(* Properties of the hue offsets and of the shared distribution step.      *)
(***************************************************************************)
\* entry i (from 0) of a table, and 0 past its end
EntryOrZero(table, i) == IF i < Len(table) THEN table[i + 1] ELSE 0

\* the offset in degrees the documentation gives for index i (from 0) of mode m
DocumentedOffset(m, i) ==
  CASE m = "analogous" -> -40 + 20 * i
    [] m = "triadic" -> <<0, 120, 240>>[(i % 3) + 1]
                        + EntryOrZero(<<0, 20, -20, 40, -40>>, i \div 3)
    [] m = "tetradic" -> <<0, 90, 180, 270>>[(i % 4) + 1]
                         + EntryOrZero(<<0, 15, -15, 30, -30, 45>>, i \div 4)
    [] m = "split" -> <<0, 150, 210>>[(i % 3) + 1]
                      + EntryOrZero(<<0, 20, -20, 40, -40, 10, -10>>, i \div 3)

\* C21: in the analogous, triadic, tetradic and split modes the hues array
\* has one offset for every index of the palette, the offset at index i is
\* the documented one (base cycle plus variation, the variation 0 past the
\* end of its table), and it is the offset added to the base hue of the
\* colour generated at that index.
C21_HueOffsets ==
  (op = "huesOf" /\ mode \in {"analogous", "triadic", "tetradic", "split"}) =>
    /\ Len(offsets) = length
    /\ Len(hsl) = length
    /\ \A k \in 1..length :
         /\ offsets[k] = DocumentedOffset(mode, k - 1)
         /\ hsl[k].h = (hueOr0(toHsl(parse(normalizeHex(arg)))) + offsets[k] * HueUnit) % FullTurn

\* a triadic, a tetradic and a split palette all reach past their tables:
\* here a triadic one whose seventeenth offset is the bare 120 of the cycle
C21_Witness ==
  /\ op = "huesOf"
  /\ mode = "triadic"
  /\ length >= 17
  /\ offsets[17] = 120
  /\ offsets[14] = 120 - 40
\* p hundredths in units of 1/Unit
Hundredths(p) == (p * Unit) \div 100

Within(value, low, high) == IF value < low THEN low ELSE IF value > high THEN high ELSE value

\* the colour buildPaletteFromHues starts from in a call of a hue-offset
\* mode: the base, or a random colour where the base has no hue (the
\* complementary case has looked the base up once before)
BaseOfCall ==
  LET base == normalizeHex(arg)
      first == IF mode = "complementary" THEN ensureHsl(base, seed).used ELSE 0
  IN  ensureHsl(base, randomAfter(seed, first)).hsl

\* the documented lightness adjustment of a hue-offset mode, in hundredths
DocumentedAdjust(m) ==
  CASE m = "complementary" -> 6
    [] m = "analogous" -> 4
    [] m = "triadic" -> 5
    [] m = "tetradic" -> 3
    [] m = "split" -> 5

\* the documented (hue, saturation, lightness) of index i (from 0) of n
DocumentedStep(base, m, n, i) ==
  LET Sbase == Within(base.s, Hundredths(40), Hundredths(90))
      Lbase == Within(base.l, Hundredths(25), Hundredths(75))
      Lmin == Max2(Hundredths(25), Lbase - Hundredths(20))
      Lmax == Min2(Hundredths(85), Lbase + Hundredths(20))
      Ld == Lmin + (IF n > 1 THEN RoundDiv((Lmax - Lmin) * i, n - 1) ELSE (Lmax - Lmin) \div 2)
  IN  [h |-> (base.h + huesOf(m, n)[i + 1] * HueUnit) % FullTurn,
       s |-> Within(Sbase + (Hundredths(5) * (2 * i - n)) \div 2, Hundredths(35), Hundredths(95)),
       l |-> Within(Ld + (Hundredths(DocumentedAdjust(m)) * (2 * i - n)) \div 2,
                    Hundredths(25), Hundredths(85))]

\* C22: in every hue-offset mode the hue, saturation and lightness handed
\* to formatHex at index i are the documented ones: the hue is the base hue
\* plus the offset wrapped into [0, 360), the saturation and the lightness
\* are the clamped base values spread over the indices and clamped again.
C22_DistributionStep ==
  (op = "generatePaletteByMode" /\ mode \in HueModes) =>
    /\ Len(hsl) = length
    /\ \A k \in 1..length :
         /\ hsl[k] = DocumentedStep(BaseOfCall, mode, length, k - 1)
         /\ hsl[k].h >= 0
         /\ hsl[k].h < FullTurn

\* an analogous palette of twelve from pure red: the first hue is 0 - 40
\* wrapped to 320, the first lightness is clamped from below and the last
\* saturation from above
C22_Witness ==
  /\ op = "generatePaletteByMode"
  /\ mode = "analogous"
  /\ arg = <<"#", "F", "F", "0", "0", "0", "0">>
  /\ length = 12
  /\ hsl[1].h = 320 * HueUnit
  /\ hsl[1].l = Hundredths(25)
  /\ hsl[12].s = Hundredths(95)
  /\ hsl[12].l = Hundredths(85)
SameIds(old, new) ==
  /\ Len(new) = Len(old)
  /\ \A k \in 1..Len(old) : new[k].id = old[k].id

\* C24: toggleLock, updateHex and a committed regeneration leave the length
\* of the palette and the id at every position as they were just before;
\* toggleLock changes nothing but the locked flag of the swatch it names,
\* updateHex nothing but that swatch's hex, and a regeneration nothing but
\* the hex of unlocked positions.
C24_IdentityAndOrderStable ==
  /\ op = "toggleLock" =>
       /\ SameIds(before.palette, palette)
       /\ \A k \in 1..Len(palette) :
            /\ palette[k].hex = before.palette[k].hex
            /\ (k # before.target => palette[k].locked = before.palette[k].locked)
  /\ op = "updateHex" =>
       /\ SameIds(before.palette, palette)
       /\ \A k \in 1..Len(palette) :
            /\ palette[k].locked = before.palette[k].locked
            /\ (k # before.target => palette[k].hex = before.palette[k].hex)
  /\ op = "handleHexBlur" =>
       /\ SameIds(before.palette, palette)
       /\ \A k \in 1..Len(palette) :
            /\ palette[k].locked = before.palette[k].locked
            /\ (palette[k].id # before.editing.id => palette[k].hex = before.palette[k].hex)
  /\ op = "generatePalette" =>
       /\ SameIds(before.palette, palette)
       /\ \A k \in 1..Len(palette) :
            /\ palette[k].locked = before.palette[k].locked
            /\ (palette[k].locked => palette[k].hex = before.palette[k].hex)
\* C25: when the palette was edited between a regeneration's request and
\* its animation frame, the palette the frame commits is built on the edited
\* palette: it has that palette's swatches position by position, a swatch
\* locked in the meantime is still locked and keeps its hex.
C25_EditsSurvivePendingRegeneration ==
  (op = "generatePalette" /\ before.palette # before.request.palette /\ before.palette # <<>>) =>
    /\ SameIds(before.palette, palette)
    /\ \A k \in 1..Len(palette) :
         /\ palette[k].locked = before.palette[k].locked
         /\ (palette[k].locked => palette[k].hex = before.palette[k].hex)
\* C26: automatic regeneration comes to rest: once the user's events have
\* stopped, eventually no regeneration is pending and generatorBusy is false,
\* and both stay so, in gradient mode as in every other mode.
C26_GradientRegenerationQuiesces ==
  <>[](pending = <<>> /\ generatorBusy = FALSE)
(***************************************************************************)
(* Properties of the vote tallies.                                         *)
(***************************************************************************)
\* each counter is the size of its list and no user is in both lists
Tallied(document) ==
  /\ document.upvotes = Cardinality(document.upvotedBy)
  /\ document.downvotes = Cardinality(document.downvotedBy)
  /\ document.upvotes >= 0
  /\ document.downvotes >= 0
  /\ document.upvotedBy \cap document.downvotedBy = {}

\* C27: when every handleVote call completes before the next starts, a
\* palette shared with no votes always has upvotes = |upvotedBy|,
\* downvotes = |downvotedBy|, neither negative, and no user in both lists;
\* and a written vote leaves the voter in the list voted for, or in neither
\* when the same vote was there before.
C27_TalliesMatchVoterLists ==
  /\ Tallied(sharedPalette)
  /\ \A c \in Sessions :
       (calls[c] # NoCall /\ calls[c].voteType = "upvote")
         => LET after == updateDoc(sharedPalette,
                                   handleVote(calls[c].data, calls[c].uid, "upvote"),
                                   calls[c].uid)
            IN  /\ (calls[c].uid \in after.upvotedBy) = (calls[c].uid \notin sharedPalette.upvotedBy)
                /\ calls[c].uid \notin after.downvotedBy
  /\ \A c \in Sessions :
       (calls[c] # NoCall /\ calls[c].voteType = "downvote")
         => LET after == updateDoc(sharedPalette,
                                   handleVote(calls[c].data, calls[c].uid, "downvote"),
                                   calls[c].uid)
            IN  /\ (calls[c].uid \in after.downvotedBy) = (calls[c].uid \notin sharedPalette.downvotedBy)
                /\ calls[c].uid \notin after.upvotedBy

\* after four votes in turn one user has moved from one list to the other
\* or taken a vote back, and both lists hold a voter
C27_Witness ==
  /\ votesCast = MaxVotes
  /\ op = "updateDoc"
  /\ \A c \in Sessions : calls[c] = NoCall
  /\ sharedPalette.upvotedBy = {"u2"}
  /\ sharedPalette.downvotedBy = {"u1"}
  /\ sharedPalette.upvotes = 1
  /\ sharedPalette.downvotes = 1

\* C28: when handleVote calls overlap between their getDoc and their
\* updateDoc, then once no call is under way the counters are still the
\* sizes of the voter lists and no user is in both lists.
C28_TalliesConsistentUnderInterleaving ==
  (\A c \in Sessions : calls[c] = NoCall) => Tallied(sharedPalette)
(***************************************************************************)
(* Properties of the saved-palette hook.                                   *)
(***************************************************************************)
\* C29: loading is true only while a listener for the signed-in user is
\* subscribed and has not delivered its first result; in particular it is
\* false whenever nobody is signed in.
C29_LoadingOnlyWhileAwaiting ==
  loading =>
    /\ user # NoUser
    /\ subscription.uid = user
    /\ subscription.status = "awaiting"
====
